---- MODULE Spec2Model ----
(***************************************************************************)
(* build-process-watcher: the sampler (monitor.sh), the start action and   *)
(* the cleanup / rendering pass (cleanup.ts), as one state machine.        *)
(*                                                                         *)
(* Text is modelled as sequences of one-character strings, so that         *)
(* formatting (printf), splitting, trimming, parseFloat and the default    *)
(* (code-unit) sort are computed the way the code computes them.           *)
(* Numbers are exact rationals extended with NaN and the two infinities    *)
(* (the values JavaScript arithmetic can produce here); binary rounding of *)
(* doubles is not modelled.                                                *)
(***************************************************************************)
EXTENDS Integers, Sequences, FiniteSets, TLC

VARIABLES
    env,        \* what the run is given: clock instants, jps outputs, input texts
    pc,         \* the sampler's position in monitor.sh
    elapsed,    \* ELAPSED_TIME of the tick in flight
    ticks,      \* number of ticks started
    jpsOutput,  \* the rows of jps_output of the tick in flight
    row,        \* the row of jps_output the inner loop is at
    rec,        \* the record the echo of line 51 appends
    log,        \* build_process_watcher.log as text.split('\n') returns it; <<>> when absent
    pidFile,    \* monitor.pid holds the sampler's pid
    pending,    \* signals delivered to the sampler and not yet trapped
    tickBase,   \* Len(log) when the tick in flight started
    stop,       \* the first stop signal delivered: the tick count and the log at that moment
    cl,         \* the rendering passes: "ext" (the cleanup action), "trap" (the sampler's child)
    summary,    \* the analysis sections appended to GITHUB_STEP_SUMMARY, by pass
    down        \* the downsampler applied to a timeline length

vars == <<env, pc, elapsed, ticks, jpsOutput, row, rec, log, pidFile, pending,
          tickBase, stop, cl, summary, down>>

-----------------------------------------------------------------------------
(* Bounds of the model *)

\* ticks the sampler loop is followed for
MaxTicks == 2
\* longest timeline the downsampler is applied to on its own
MaxTimeline == 520
\* analysis sections of the sampler's own passes that are counted
MaxRuns == 2
\* data lines of a log text handed to the parser on its own
MaxLines == 3

-----------------------------------------------------------------------------
(* Text *)

\* the characters of the model, in code-unit order
Alphabet ==
    <<" ", "+", "-", ".", "0", "1", "2", "3", "4", "5", "6", "7", "8", "9", ":", "B", "C", "D", "E", "G", "H", "I", "J", "K", "M", "N", "P", "R", "S", "T", "U", "W", "_", "a", "c", "d", "e", "g", "h", "i", "k", "l", "m", "n", "o", "p", "r", "s", "t", "u", "v", "x", "y", "|">>

Code(c) == CHOOSE i \in 1..Len(Alphabet) : Alphabet[i] = c

DigitChars == <<"0", "1", "2", "3", "4", "5", "6", "7", "8", "9">>

IsDigit(c) == \E i \in 1..10 : DigitChars[i] = c

DigitVal(c) == (CHOOSE i \in 1..10 : DigitChars[i] = c) - 1

IsAlnum(c) == IsDigit(c) \/ (Code(c) >= Code("B") /\ Code(c) <= Code("y") /\ c # "_")

\* s < t as Array.prototype.sort() orders strings: by code units, a proper prefix first
RECURSIVE StrLess(_, _)
StrLess(s, t) ==
    IF t = <<>> THEN FALSE
    ELSE IF s = <<>> THEN TRUE
    ELSE IF s[1] # t[1] THEN Code(s[1]) < Code(t[1])
    ELSE StrLess(Tail(s), Tail(t))

\* Body applied to the value: the value is computed once, wherever Body uses it
With(value, Body(_)) == CHOOSE r \in {Body(v) : v \in {value}} : TRUE

With2(x, y, Body(_, _)) == CHOOSE r \in {Body(a, b) : a \in {x}, b \in {y}} : TRUE

\* the elements of a set of numbers in increasing order
Ascending(S) ==
    With(S, LAMBDA T :
        <<>> \o [j \in 1..Cardinality(T) |->
                    CHOOSE i \in T : Cardinality({x \in T : x < i}) = j - 1])

\* the text between the first and the last element of a non-empty set of positions
Between(t, solid) ==
    SubSeq(t, CHOOSE i \in solid : \A j \in solid : i <= j,
              CHOOSE i \in solid : \A j \in solid : j <= i)

\* String.prototype.trim: the text between its first and its last non-blank character
Trim(s) ==
    With(s, LAMBDA t :
        With({i \in 1..Len(t) : t[i] # " "}, LAMBDA solid :
            IF solid = {} THEN <<>> ELSE Between(t, solid)))

TrimLeft(s) ==
    With(s, LAMBDA t :
        With({i \in 1..Len(t) : t[i] # " "}, LAMBDA solid :
            IF solid = {} THEN <<>> ELSE Between(t, solid \cup {Len(t)})))

\* the texts between consecutive cuts of t
Pieces(t, cut) == <<>> \o [j \in 1..(Len(cut) - 1) |-> SubSeq(t, cut[j] + 1, cut[j + 1] - 1)]

\* String.prototype.split(sep) for a one-character separator: the texts between
\* consecutive separators, one more than there are separators
Split(s, sep) ==
    With(s, LAMBDA t :
        With(<<0>> \o Ascending({i \in 1..Len(t) : t[i] = sep}) \o <<Len(t) + 1>>,
             LAMBDA cut : Pieces(t, cut)))

\* decimal digits of a natural number
RECURSIVE Digits(_)
Digits(n) ==
    IF n < 10 THEN <<DigitChars[n + 1]>>
    ELSE Append(Digits(n \div 10), DigitChars[(n % 10) + 1])

HeaderText ==
    <<"S", "t", "a", "r", "t", "i", "n", "g", " ", "m", "e", "m", "o", "r", "y", " ", "m", "o", "n", "i", "t", "o", "r", " ", "a", "t", " ">>

DateText ==
    <<"T", "h", "u", " ", "N", "o", "v", " ", "5", " ", "1", "5", ":", "4", "4", ":", "0", "0", " ", "U", "T", "C", " ", "2", "0", "2", "6">>

ColumnHeader ==
    <<"E", "l", "a", "p", "s", "e", "d", "_", "T", "i", "m", "e", " ", "|", " ", "P", "I", "D", " ", "|", " ", "N", "a", "m", "e", " ", "|", " ", "H", "e", "a", "p", "_", "U", "s", "e", "d", "_", "M", "B", " ", "|", " ", "H", "e", "a", "p", "_", "C", "a", "p", "a", "c", "i", "t", "y", "_", "M", "B", " ", "|", " ", "R", "S", "S", "_", "M", "B">>

GradleDaemon ==
    <<"G", "r", "a", "d", "l", "e", "D", "a", "e", "m", "o", "n">>

KotlinCompileDaemon ==
    <<"K", "o", "t", "l", "i", "n", "C", "o", "m", "p", "i", "l", "e", "D", "a", "e", "m", "o", "n">>

GradleWorkerMain ==
    <<"G", "r", "a", "d", "l", "e", "W", "o", "r", "k", "e", "r", "M", "a", "i", "n">>

Jps ==
    <<"J", "p", "s">>

PATTERNS == <<GradleDaemon, KotlinCompileDaemon, GradleWorkerMain>>

-----------------------------------------------------------------------------
(* Numbers: JavaScript number values as exact rationals, NaN, +-Infinity *)

RECURSIVE GCD(_, _)
GCD(a, b) == IF b = 0 THEN a ELSE With(a % b, LAMBDA r : GCD(b, r))

Abs(x) == IF x < 0 THEN -x ELSE x

\* the rational n/d (d > 0) in lowest terms
Fin(n, d) ==
    With(n, LAMBDA a :
        With(d, LAMBDA b :
            With(GCD(Abs(a), b), LAMBDA g :
                [k |-> "fin", n |-> a \div g, d |-> b \div g])))

Int2Num(i) == [k |-> "fin", n |-> i, d |-> 1]

NaN == [k |-> "nan", n |-> 0, d |-> 1]

PosInf == [k |-> "inf", n |-> 1, d |-> 1]

NegInf == [k |-> "inf", n |-> -1, d |-> 1]

IsFinite(x) == x.k = "fin"

Sign(i) == IF i > 0 THEN 1 ELSE IF i < 0 THEN -1 ELSE 0

InfOf(s) == IF s > 0 THEN PosInf ELSE NegInf

NAdd(x, y) ==
    With2(x, y, LAMBDA a, b :
        IF a.k = "nan" \/ b.k = "nan" THEN NaN
        ELSE IF a.k = "inf" /\ b.k = "inf" THEN (IF a.n = b.n THEN a ELSE NaN)
        ELSE IF a.k = "inf" THEN a
        ELSE IF b.k = "inf" THEN b
        ELSE Fin(a.n * b.d + b.n * a.d, a.d * b.d))

NNeg(x) == With(x, LAMBDA a : IF a.k = "nan" THEN NaN ELSE [a EXCEPT !.n = -a.n])

NSub(x, y) == NAdd(x, NNeg(y))

NMul(x, y) ==
    With2(x, y, LAMBDA a, b :
        IF a.k = "nan" \/ b.k = "nan" THEN NaN
        ELSE IF a.k = "inf" \/ b.k = "inf"
             THEN (IF a.n = 0 \/ b.n = 0 THEN NaN ELSE InfOf(Sign(a.n) * Sign(b.n)))
        ELSE Fin(a.n * b.n, a.d * b.d))

NDiv(x, y) ==
    With2(x, y, LAMBDA a, b :
        IF a.k = "nan" \/ b.k = "nan" THEN NaN
        ELSE IF a.k = "inf" THEN (IF b.k = "inf" THEN NaN
                                  ELSE InfOf(a.n * (IF b.n < 0 THEN -1 ELSE 1)))
        ELSE IF b.k = "inf" THEN Int2Num(0)
        ELSE IF b.n = 0 THEN (IF a.n = 0 THEN NaN ELSE InfOf(Sign(a.n)))
        ELSE Fin(a.n * Sign(b.n) * b.d, a.d * Abs(b.n)))

\* x < y; false when either is NaN
NLess(x, y) ==
    With2(x, y, LAMBDA a, b :
        IF a.k = "nan" \/ b.k = "nan" THEN FALSE
        ELSE IF a.k = "inf" THEN a.n < 0 /\ ~(b.k = "inf" /\ b.n < 0)
        ELSE IF b.k = "inf" THEN b.n > 0
        ELSE a.n * b.d < b.n * a.d)

\* Math.max(a, b)
Max2(x, y) ==
    With2(x, y, LAMBDA a, b :
        IF a.k = "nan" \/ b.k = "nan" THEN NaN ELSE IF NLess(a, b) THEN b ELSE a)

\* Math.max(...xs): -Infinity for no argument, NaN when an argument is NaN
MathMax(xs) ==
    With(xs, LAMBDA v :
        LET RECURSIVE from(_)
            from(i) == IF i > Len(v) THEN NegInf ELSE Max2(v[i], from(i + 1))
        IN  from(1))

\* Math.ceil
NCeil(x) ==
    With(x, LAMBDA a : IF a.k # "fin" THEN a ELSE Int2Num(-((-a.n) \div a.d)))

\* ceil(a / b) of two naturals, as Math.ceil(a / b) gives it
CeilDiv(a, b) == NCeil(NDiv(Int2Num(a), Int2Num(b)))

\* JavaScript truthiness of a number, for `x || y`
Truthy(x) == ~(x.k = "nan" \/ (x.k = "fin" /\ x.n = 0))

-----------------------------------------------------------------------------
(* The sampler's formatting (monitor.sh) *)

\* printf "%02d"
Pad2(n) == IF n < 10 THEN <<"0">> \o Digits(n) ELSE Digits(n)

\* TIMESTAMP of line 28 for ELAPSED_TIME = e
TimestampOf(e) ==
    Pad2(e \div 3600) \o <<":">> \o Pad2((e % 3600) \div 60) \o <<":">> \o Pad2(e % 60)

\* tenths of kb / 1024 as printf "%.1f" rounds them (to nearest, ties to even)
Tenths(kb) ==
    LET q == (kb * 10) \div 1024
        r == (kb * 10) % 1024
    IN  IF r > 512 \/ (r = 512 /\ q % 2 = 1) THEN q + 1 ELSE q

\* awk "BEGIN { printf \"%.1f\", kb / 1024 }"
Fmt1(kb) == Digits(Tenths(kb) \div 10) \o <<".">> \o Digits(Tenths(kb) % 10)

FieldSep == <<" ", "|", " ">>

UnitMB == <<"M", "B">>

\* the line echoed at line 51
RecordLine(ts, pid, name, usedKB, capKB, rssKB) ==
    ts \o FieldSep \o Digits(pid) \o FieldSep \o name \o FieldSep
       \o Fmt1(usedKB) \o UnitMB \o FieldSep \o Fmt1(capKB) \o UnitMB \o FieldSep
       \o Fmt1(rssKB) \o UnitMB

\* [[ "$NAME" == "$PATTERN" ]] for some PATTERN of PATTERNS
Watched(name) == \E i \in 1..Len(PATTERNS) : PATTERNS[i] = name

-----------------------------------------------------------------------------
(* parseLogFile (cleanup.ts) *)

\* rss.replace('MB', ''): the first occurrence only
ReplaceMB(s) ==
    With(s, LAMBDA t :
        With({i \in 1..(Len(t) - 1) : t[i] = "M" /\ t[i + 1] = "B"}, LAMBDA at :
            IF at = {} THEN t
            ELSE With(CHOOSE x \in at : \A y \in at : x <= y, LAMBDA i :
                     SubSeq(t, 1, i - 1) \o SubSeq(t, i + 2, Len(t)))))

\* the longest prefix of s made of digits
DigitPrefix(s) ==
    With(s, LAMBDA t :
        With({i \in 1..Len(t) : ~IsDigit(t[i])}, LAMBDA other :
            IF other = {} THEN t
            ELSE SubSeq(t, 1, (CHOOSE i \in other : \A j \in other : i <= j) - 1)))

\* the value of a text of digits, 0 for the empty text
DigitsValue(ds) ==
    With(ds, LAMBDA t :
        LET RECURSIVE upto(_)
            upto(k) == IF k = 0 THEN 0 ELSE upto(k - 1) * 10 + DigitVal(t[k])
        IN  upto(Len(t)))

RECURSIVE Pow10(_)
Pow10(n) == IF n = 0 THEN 1 ELSE 10 * Pow10(n - 1)

\* the number with integer digits ip and fraction digits fp
Magnitude(ip, fp) ==
    Fin(DigitsValue(ip) * Pow10(Len(fp)) + DigitsValue(fp), Pow10(Len(fp)))

\* parseFloat on the texts of the model: optional sign, digits, optional fraction
\* (exponents and the literal Infinity do not occur in them)
ParseFloat(str) ==
    With(TrimLeft(str), LAMBDA s0 :
    With(IF s0 # <<>> /\ (s0[1] = "-" \/ s0[1] = "+") THEN Tail(s0) ELSE s0, LAMBDA s1 :
    With(DigitPrefix(s1), LAMBDA ip :
    With(SubSeq(s1, Len(ip) + 1, Len(s1)), LAMBDA s2 :
    With(IF s2 # <<>> /\ s2[1] = "." THEN DigitPrefix(Tail(s2)) ELSE <<>>, LAMBDA fp :
        IF ip = <<>> /\ fp = <<>> THEN NaN
        ELSE IF s0[1] = "-" THEN NNeg(Magnitude(ip, fp))
        ELSE Magnitude(ip, fp))))))

\* lines 25-27: the sample made of the six trimmed fields
SampleOf(f) ==
    <<[key       |-> f[2] \o <<"-">> \o f[3],
       timestamp |-> f[1],
       rss       |-> ParseFloat(ReplaceMB(f[6]))]>>

\* lines 22-27 for one line: the sample the callback pushes, if any
ParseLine(line) ==
    With(Split(Trim(line), "|"), LAMBDA parts :
        IF Len(parts) # 6 THEN <<>>
        ELSE With(<<>> \o [i \in 1..6 |-> Trim(parts[i])], SampleOf))

\* index of the entry of the Map with this key, 0 when there is none
KeyIndex(processes, key) ==
    IF \E i \in 1..Len(processes) : processes[i].key = key
    THEN CHOOSE i \in 1..Len(processes) : processes[i].key = key
    ELSE 0

\* lines 29-34: create the entry if absent, push timestamp and rss
PushSample(processes, key, timestamp, rssValue) ==
    LET i == KeyIndex(processes, key)
    IN  IF i = 0
        THEN Append(processes, [key |-> key, timestamps |-> <<timestamp>>, rss |-> <<rssValue>>])
        ELSE [processes EXCEPT ![i] = [key |-> key,
                                       timestamps |-> Append(@.timestamps, timestamp),
                                       rss |-> Append(@.rss, rssValue)]]

\* lines 23 and 29-35: a line without six fields leaves the Map and the Set alone
PushParsed(acc, pushed) ==
    IF pushed = <<>> THEN acc
    ELSE [timestamps |-> acc.timestamps \cup {pushed[1].timestamp},
          processes  |-> PushSample(acc.processes, pushed[1].key,
                                    pushed[1].timestamp, pushed[1].rss)]

\* forEach over the first k lines
RECURSIVE ParseLines(_, _)
ParseLines(lines, k) ==
    IF k = 0 THEN [processes |-> <<>>, timestamps |-> {}]
    ELSE With(ParseLines(lines, k - 1), LAMBDA acc :
             With(ParseLine(lines[k]), LAMBDA pushed : PushParsed(acc, pushed)))

\* a reader that takes the header to be one line long: lines.slice(1)
SkipHeaderOne(lines) == IF Len(lines) <= 1 THEN <<>> ELSE SubSeq(lines, 2, Len(lines))

\* lines.slice(2)
SkipHeader(lines) == IF Len(lines) <= 2 THEN <<>> ELSE SubSeq(lines, 3, Len(lines))

\* Array.from(set).sort()
SortStrings(S) ==
    With(S, LAMBDA T :
        <<>> \o [j \in 1..Cardinality(T) |->
                    CHOOSE x \in T : Cardinality({y \in T : StrLess(y, x)}) = j - 1])

\* parseLogFile applied to the lines of the file
parseLogFile(lines) ==
    With(SkipHeader(lines), LAMBDA body :
        With(ParseLines(body, Len(body)), LAMBDA acc :
            [processes |-> acc.processes, timestamps |-> SortStrings(acc.timestamps)]))

-----------------------------------------------------------------------------
(* Aggregation and downsampling (cleanup.ts) *)

\* Array.prototype.indexOf, 1-based; 0 stands for -1
IndexOf(seq, x) ==
    With2(seq, x, LAMBDA v, e :
        With({i \in 1..Len(v) : v[i] = e}, LAMBDA at :
            IF at = {} THEN 0 ELSE CHOOSE i \in at : \A j \in at : i <= j))

\* an aggregate that carries a series's last value over the timestamps at which
\* the series has no entry
RECURSIVE AggregateCarried(_, _)
AggregateCarried(processes, timestamp) ==
    IF processes = <<>> THEN Int2Num(0)
    ELSE LET p    == processes[Len(processes)]
             rest == AggregateCarried(SubSeq(processes, 1, Len(processes) - 1), timestamp)
         IN  IF IndexOf(p.timestamps, timestamp) # 0
             THEN NAdd(rest, p.rss[IndexOf(p.timestamps, timestamp)])
             ELSE NAdd(rest, p.rss[Len(p.rss)])

\* what series p adds to the sum at this timestamp: nothing when the filter drops it
Contribution(p, timestamp) ==
    With(IndexOf(p.timestamps, timestamp), LAMBDA at :
        IF at = 0 THEN <<>> ELSE <<p.rss[at]>>)

\* .filter(p => p.timestamps.includes(timestamp))
\* .reduce((sum, p) => sum + p.rss[p.timestamps.indexOf(timestamp)], 0)
AggregateAt(processes, timestamp) ==
    With2(processes, timestamp, LAMBDA ps, t :
        LET RECURSIVE reduce(_)
            reduce(k) ==
                IF k = 0 THEN Int2Num(0)
                ELSE With2(reduce(k - 1), Contribution(ps[k], t), LAMBDA sum, c :
                         IF c = <<>> THEN sum ELSE NAdd(sum, c[1]))
        IN  reduce(Len(ps)))

\* timestamps.map(timestamp => ...) of lines 52-56 and 112-116
aggregatedRss(processes, timestamps) ==
    With2(processes, timestamps, LAMBDA ps, ts :
        <<>> \o [i \in 1..Len(ts) |-> AggregateAt(ps, ts[i])])

\* a target density whose first threshold is off by one: n <= 30
TargetPointsInclusive(n) == IF n <= 30 THEN n ELSE IF n < 100 THEN 20 ELSE 30

\* lines 46-47
targetPoints(n) == IF n < 30 THEN n ELSE IF n < 100 THEN 20 ELSE 30

\* line 48: Math.ceil(n / targetPoints), NaN for n = 0
interval(n) == CeilDiv(n, targetPoints(n))

\* i % interval === 0
OnStride(i, iv) == iv.k = "fin" /\ iv.n # 0 /\ i % iv.n = 0

\* line 49: the (0-based) indices the filter keeps, in order
SampledIndices(n) ==
    With(interval(n), LAMBDA iv : Ascending({i \in 0..(n - 1) : OnStride(i, iv)}))

-----------------------------------------------------------------------------
(* generateMermaidChart (cleanup.ts) *)

\* key.replace(/[^a-zA-Z0-9]/g, '_')
CleanKey(key) ==
    With(key, LAMBDA t : <<>> \o [i \in 1..Len(t) |-> IF IsAlnum(t[i]) THEN t[i] ELSE "_"])

\* keep the elements of a sequence that are not the empty string (.filter(Boolean))
FilterBoolean(xs) ==
    With(xs, LAMBDA v :
        With(Ascending({i \in 1..Len(v) : v[i] # <<>>}), LAMBDA kept :
            <<>> \o [j \in 1..Len(kept) |-> v[kept[j]]]))

Concat(xss) ==
    With(xss, LAMBDA v :
        LET RECURSIVE upto(_)
            upto(k) == IF k = 0 THEN <<>> ELSE upto(k - 1) \o v[k]
        IN  upto(Len(v)))

\* lines 65-68: the node of one series at the timestamp, the empty string when
\* the series has no entry there
NodeOf(data, timestamp, i) ==
    With(IndexOf(data.timestamps, timestamp), LAMBDA at :
        IF at = 0 THEN <<>> ELSE <<CleanKey(data.key), i, data.rss[at]>>)

\* lines 64-70: the node lines of the subgraph of sampled index i (0-based);
\* a node is <<cleanKey, i, rss>>, an omitted one the empty string
SubgraphNodes(processes, timestamp, i) ==
    With2(processes, timestamp, LAMBDA ps, t :
        FilterBoolean(<<>> \o [p \in 1..Len(ps) |-> NodeOf(ps[p], t, i)]))

\* edges that look at the entry of the current sampled timestamp only
SeriesEdgesCurrentOnly(data, sampled) ==
    With2(data, sampled, LAMBDA d, ts :
        FilterBoolean(<<>> \o [j \in 1..Len(ts) |->
            IF j = 1 THEN <<>>
            ELSE IF IndexOf(d.timestamps, ts[j]) = 0 THEN <<>>
            ELSE <<CleanKey(d.key), j - 2, CleanKey(d.key), j - 1>>]))

\* lines 78-84: the edges of one series; an edge is <<cleanKey, i-1, cleanKey, i>>
SeriesEdges(data, sampled) ==
    With2(data, sampled, LAMBDA d, ts :
        FilterBoolean(<<>> \o [j \in 1..Len(ts) |->
            IF j = 1 THEN <<>>
            ELSE IF IndexOf(d.timestamps, ts[j - 1]) = 0
                    \/ IndexOf(d.timestamps, ts[j]) = 0 THEN <<>>
            ELSE <<CleanKey(d.key), j - 2, CleanKey(d.key), j - 1>>]))

\* lines 87-90: the edges Agg_{i-1} --> Agg_i
AggregateEdges(sampled) ==
    With(sampled, LAMBDA ts :
        FilterBoolean(<<>> \o [j \in 1..Len(ts) |-> IF j = 1 THEN <<>> ELSE <<j - 2, j - 1>>]))

\* lines 49-97: the chart of the sampled timestamps
ChartOf(processes, idx, sampled) ==
    [indices   |-> idx,
     sampled   |-> sampled,
     agg       |-> aggregatedRss(processes, sampled),
     subgraphs |-> <<>> \o [j \in 1..Len(sampled) |-> SubgraphNodes(processes, sampled[j], j - 1)],
     edges     |-> <<>> \o [p \in 1..Len(processes) |-> SeriesEdges(processes[p], sampled)],
     aggEdges  |-> AggregateEdges(sampled)]

generateMermaidChart(processes, timestamps) ==
    With2(processes, timestamps, LAMBDA ps, ts :
        With(SampledIndices(Len(ts)), LAMBDA idx :
            With(<<>> \o [j \in 1..Len(idx) |-> ts[idx[j] + 1]], LAMBDA sampled :
                ChartOf(ps, idx, sampled))))

-----------------------------------------------------------------------------
(* generateSvg (cleanup.ts) *)

width == 1400

height == 800

marginTop == 60

marginRight == 300

marginBottom == 100

marginLeft == 100

\* ...flatMap(p => p.rss)
AllRss(processes) ==
    With(processes, LAMBDA ps : Concat(<<>> \o [p \in 1..Len(ps) |-> ps[p].rss]))

\* line 125: (width - margin.left - margin.right) / (timestamps.length - 1) || 1
\* the division binds tighter than ||
xScale(n) ==
    With(NDiv(Int2Num(width - marginLeft - marginRight), Int2Num(n - 1)), LAMBDA q :
        IF Truthy(q) THEN q ELSE Int2Num(1))

\* lines 119-124
yAxisMax(processes, timestamps) ==
    With2(MathMax(AllRss(processes)), MathMax(aggregatedRss(processes, timestamps)),
          LAMBDA maxIndividualRss, maxAggregatedRss :
              NMul(NCeil(NDiv(Max2(maxIndividualRss, maxAggregatedRss), Int2Num(1000))),
                   Int2Num(1000)))

\* line 126
yScale(processes, timestamps) ==
    NDiv(Int2Num(height - marginTop - marginBottom), yAxisMax(processes, timestamps))

\* margin.left + (i * xScale) for the 0-based index i
XAt(i, xs) == NAdd(Int2Num(marginLeft), NMul(Int2Num(i), xs))

\* height - margin.bottom - (v * yScale)
YAt(v, ys) == NSub(Int2Num(height - marginBottom), NMul(v, ys))

\* lines 158-164: the x of every axis label
LabelXs(n, step, xs) ==
    With(Ascending({i \in 0..(n - 1) : i % step = 0}), LAMBDA at :
        <<>> \o [j \in 1..Len(at) |-> XAt(at[j], xs)])

\* lines 172-177: the points of one series
SeriesPoints(data, timestamps, xs, ys) ==
    <<>> \o [i \in 1..Len(data.timestamps) |->
                <<XAt(IndexOf(timestamps, data.timestamps[i]) - 1, xs), YAt(data.rss[i], ys)>>]

\* lines 112-213 with the scales and the aggregate computed
SvgOf(processes, timestamps, xs, ys, agg) ==
    [xScale   |-> xs,
     yAxisMax |-> yAxisMax(processes, timestamps),
     aggregatedRss |-> agg,
     labels   |-> IF timestamps = <<>> THEN <<>>
                  ELSE LabelXs(Len(timestamps), CeilDiv(Len(timestamps), 15).n, xs),
     series   |-> <<>> \o [p \in 1..Len(processes) |->
                              SeriesPoints(processes[p], timestamps, xs, ys)],
     aggregatedPoints |-> <<>> \o [i \in 1..Len(timestamps) |->
                                      <<XAt(i - 1, xs), YAt(agg[i], ys)>>]]

generateSvg(processes, timestamps) ==
    With2(processes, timestamps, LAMBDA ps, ts :
        With2(xScale(Len(ts)), yScale(ps, ts), LAMBDA xs, ys :
            With(aggregatedRss(ps, ts), LAMBDA agg : SvgOf(ps, ts, xs, ys, agg))))

-----------------------------------------------------------------------------
(* The summary statistics of run (cleanup.ts) *)

NSum(xs) ==
    With(xs, LAMBDA v :
        LET RECURSIVE upto(_)
            upto(k) == IF k = 0 THEN Int2Num(0) ELSE NAdd(upto(k - 1), v[k])
        IN  upto(Len(v)))

\* lines 277-286 for one series
ProcessDetails(data) ==
    [key           |-> data.key,
     maxProcessRss |-> MathMax(data.rss),
     avgProcessRss |-> NDiv(NSum(data.rss), Int2Num(Len(data.rss))),
     measurements  |-> Len(data.rss),
     lastRss       |-> data.rss[Len(data.rss)]]

\* lines 254-258 and 260-288: what the appended section reports
SummarySection(processes, timestamps) ==
    [maxRss       |-> MathMax(AllRss(processes)),
     processCount |-> Len(processes),
     duration     |-> IF Len(timestamps) > 0
                      THEN <<"from", timestamps[1], "to", timestamps[Len(timestamps)]>>
                      ELSE <<"N/A">>,
     details      |-> [p \in 1..Len(processes) |-> ProcessDetails(processes[p])]]

-----------------------------------------------------------------------------
(* The log file and what a reader of it sees *)

\* echo line >> "$LOG_FILE": the text grows by the line and a newline
AppendLine(file, line) ==
    SubSeq(file, 1, Len(file) - 1) \o <<file[Len(file)] \o line, <<>>>>

\* echo line > "$LOG_FILE"
CreateWith(line) == <<line, <<>>>>

\* the file while the first k characters of line have reached it
PartialAppend(file, line, k) ==
    SubSeq(file, 1, Len(file) - 1) \o <<file[Len(file)] \o SubSeq(line, 1, k)>>

\* fs.readFileSync(logFile).split('\n') is not synchronised with the sampler's
\* append: while the echo is in progress the reader sees the file as it was,
\* with any prefix of the record, or with the whole record
VisibleLogs ==
    IF pc = "writing"
    THEN {PartialAppend(log, rec, k) : k \in 0..Len(rec)} \cup {AppendLine(log, rec)}
    ELSE {log}

-----------------------------------------------------------------------------
(* The process-inspection collaborator: what jps, jstat and ps answer *)

\* jstat -gc of a live JVM: the columns EC EU OC OU, in KB
GcOk == [st |-> "ok", EC |-> 20480, EU |-> 10240, OC |-> 40960, OU |-> 5120]

\* exit status 0 and no output
GcEmpty == [st |-> "empty", EC |-> 0, EU |-> 0, OC |-> 0, OU |-> 0]

\* a non-zero exit status (the process is gone, permission denied)
GcFail == [st |-> "fail", EC |-> 0, EU |-> 0, OC |-> 0, OU |-> 0]

RssOk(kb) == [st |-> "ok", kb |-> kb]

RssEmpty == [st |-> "empty", kb |-> 0]

RssFail == [st |-> "fail", kb |-> 0]

\* what the reads of one process answer on a tick
ReadOutcomes(kbs) ==
    {[gc |-> GcOk, rss |-> RssOk(kb)] : kb \in kbs}
        \cup {[gc |-> GcOk, rss |-> RssEmpty], [gc |-> GcOk, rss |-> RssFail],
              [gc |-> GcEmpty, rss |-> RssEmpty], [gc |-> GcFail, rss |-> RssFail]}

JpsRow(pid, name, reads) == [pid |-> pid, name |-> name, gc |-> reads.gc, rss |-> reads.rss]

\* both reads of this row succeed
ReadsSucceed(r) == r.gc.st = "ok" /\ r.rss.st = "ok"

\* a read of this row ends with a non-zero exit status
ReadsAbort(r) == r.gc.st = "fail" \/ (r.gc.st = "ok" /\ r.rss.st = "fail")

-----------------------------------------------------------------------------
(* State *)

Passes == {"ext", "trap"}

Idle ==
    [pc |-> "idle", processes |-> <<>>, timestamps |-> <<>>,
     chart |-> generateMermaidChart(<<>>, <<>>), svg |-> generateSvg(<<>>, <<>>)]

NoStop == [seen |-> FALSE, ticks |-> 0, lines |-> 0]

NoSummary == [count |-> [c \in Passes |-> 0], last |-> SummarySection(<<>>, <<>>)]

NoDown == [n |-> 0, indices |-> <<>>, done |-> FALSE]

\* the positions at which bash runs a pending trap: between two commands
TrapPoints == {"boot", "mklog", "header", "loop", "row", "echo", "sleep", "termDone", "exitDone"}

Min(a, b) == IF a < b THEN a ELSE b

\* a signal reaches the sampler
Deliver(sig) ==
    /\ pending' = pending \cup {sig}
    /\ stop' = IF stop.seen THEN stop
               ELSE [seen |-> TRUE, ticks |-> ticks, lines |-> Len(log)]

\* the sampler has set its traps (lines 14-15) and nothing else has happened
InitSampler ==
    /\ pc = "boot"
    /\ elapsed = 0
    /\ ticks = 0
    /\ jpsOutput = <<>>
    /\ row = 1
    /\ rec = <<>>
    /\ pidFile = FALSE
    /\ pending = {}
    /\ tickBase = 0
    /\ stop = NoStop
    /\ cl = [c \in Passes |-> Idle]
    /\ summary = NoSummary

-----------------------------------------------------------------------------
(* The sampler: monitor.sh *)

\* line 18
WritePid ==
    /\ pc = "boot" /\ pending = {}
    /\ pidFile' = TRUE
    /\ pc' = "mklog"
    /\ UNCHANGED <<env, elapsed, ticks, jpsOutput, row, rec, log, pending, tickBase,
                   stop, cl, summary, down>>

\* line 21
StartLog ==
    /\ pc = "mklog" /\ pending = {}
    /\ log' = CreateWith(HeaderText \o DateText)
    /\ pc' = "header"
    /\ UNCHANGED <<env, elapsed, ticks, jpsOutput, row, rec, pidFile, pending, tickBase,
                   stop, cl, summary, down>>

\* line 22
WriteHeader ==
    /\ pc = "header" /\ pending = {}
    /\ log' = AppendLine(log, ColumnHeader)
    /\ pc' = "loop"
    /\ UNCHANGED <<env, elapsed, ticks, jpsOutput, row, rec, pidFile, pending, tickBase,
                   stop, cl, summary, down>>

\* lines 26-29: the clock does not go back; jps lists the live processes
TickStart ==
    /\ pc = "loop" /\ pending = {}
    /\ ticks < MaxTicks
    /\ \E e \in env.instants, out \in env.jps :
          /\ e >= elapsed
          /\ elapsed' = e
          /\ jpsOutput' = out
    /\ ticks' = ticks + 1
    /\ row' = 1
    /\ tickBase' = Len(log)
    /\ pc' = "row"
    /\ UNCHANGED <<env, rec, log, pidFile, pending, stop, cl, summary, down>>

\* the EXIT trap of line 15 starts: node dist/cleanup.js
StartExitTrap ==
    /\ pc' = "exitTrap"
    /\ cl' = [cl EXCEPT !["trap"] = [Idle EXCEPT !.pc = "kill"]]

\* lines 31-36: a row whose name is none of PATTERNS
SkipRow ==
    /\ pc = "row" /\ pending = {}
    /\ row <= Len(jpsOutput)
    /\ ~Watched(jpsOutput[row].name)
    /\ row' = row + 1
    /\ UNCHANGED <<env, pc, elapsed, ticks, jpsOutput, rec, log, pidFile, pending,
                   tickBase, stop, cl, summary, down>>

\* lines 37-38 and 47-48: a read that prints nothing with exit status 0: continue
ReadEmpty ==
    /\ pc = "row" /\ pending = {}
    /\ row <= Len(jpsOutput)
    /\ Watched(jpsOutput[row].name)
    /\ ~ReadsAbort(jpsOutput[row])
    /\ ~ReadsSucceed(jpsOutput[row])
    /\ row' = row + 1
    /\ UNCHANGED <<env, pc, elapsed, ticks, jpsOutput, rec, log, pidFile, pending,
                   tickBase, stop, cl, summary, down>>

\* lines 37 and 47 under set -e -o pipefail (line 3): the assignment takes the
\* pipeline's status, the status of jstat or ps, and a non-zero one ends the script
ReadAborts ==
    /\ pc = "row" /\ pending = {}
    /\ row <= Len(jpsOutput)
    /\ Watched(jpsOutput[row].name)
    /\ ReadsAbort(jpsOutput[row])
    /\ StartExitTrap
    /\ UNCHANGED <<env, elapsed, ticks, jpsOutput, row, rec, log, pidFile, pending,
                   tickBase, stop, summary, down>>

\* lines 37-49: both reads answer; the record of line 51 is formed
ReadOk ==
    /\ pc = "row" /\ pending = {}
    /\ row <= Len(jpsOutput)
    /\ Watched(jpsOutput[row].name)
    /\ ReadsSucceed(jpsOutput[row])
    /\ LET r == jpsOutput[row]
       IN  rec' = RecordLine(TimestampOf(elapsed), r.pid, r.name,
                             r.gc.EU + r.gc.OU, r.gc.EC + r.gc.OC, r.rss.kb)
    /\ pc' = "echo"
    /\ UNCHANGED <<env, elapsed, ticks, jpsOutput, row, log, pidFile, pending,
                   tickBase, stop, cl, summary, down>>

\* line 51: the echo starts writing
EchoBegin ==
    /\ pc = "echo" /\ pending = {}
    /\ pc' = "writing"
    /\ UNCHANGED <<env, elapsed, ticks, jpsOutput, row, rec, log, pidFile, pending,
                   tickBase, stop, cl, summary, down>>

\* line 51: the record and its newline are in the file
EchoEnd ==
    /\ pc = "writing"
    /\ log' = AppendLine(log, rec)
    /\ row' = row + 1
    /\ pc' = "row"
    /\ UNCHANGED <<env, elapsed, ticks, jpsOutput, rec, pidFile, pending,
                   tickBase, stop, cl, summary, down>>

\* line 54: no row is left
RowsDone ==
    /\ pc = "row" /\ pending = {}
    /\ row > Len(jpsOutput)
    /\ pc' = "sleep"
    /\ UNCHANGED <<env, elapsed, ticks, jpsOutput, row, rec, log, pidFile, pending,
                   tickBase, stop, cl, summary, down>>

\* lines 56-57
Sleep ==
    /\ pc = "sleep" /\ pending = {}
    /\ pc' = "loop"
    /\ UNCHANGED <<env, elapsed, ticks, jpsOutput, row, rec, log, pidFile, pending,
                   tickBase, stop, cl, summary, down>>

\* line 14: bash runs the TERM/INT trap between two commands, also while it is
\* inside a trap: node dist/cleanup.js is started and waited for
Trap ==
    /\ pc \in TrapPoints /\ pending # {}
    /\ \E sig \in pending : pending' = pending \ {sig}
    /\ pc' = "termTrap"
    /\ cl' = [cl EXCEPT !["trap"] = [Idle EXCEPT !.pc = "kill"]]
    /\ UNCHANGED <<env, elapsed, ticks, jpsOutput, row, rec, log, pidFile,
                   tickBase, stop, summary, down>>

\* the child of a trap has exited, with status 0 or 1
Reap ==
    /\ pc \in {"termTrap", "exitTrap"}
    /\ cl["trap"].pc \in {"ok", "failed"}
    /\ pc' = IF pc = "termTrap" THEN "termDone" ELSE "exitDone"
    /\ cl' = [cl EXCEPT !["trap"] = Idle]
    /\ UNCHANGED <<env, elapsed, ticks, jpsOutput, row, rec, log, pidFile, pending,
                   tickBase, stop, summary, down>>

\* line 14: `exit` (or set -e, when the child failed) runs the EXIT trap of line 15
ExitCommand ==
    /\ pc = "termDone" /\ pending = {}
    /\ StartExitTrap
    /\ UNCHANGED <<env, elapsed, ticks, jpsOutput, row, rec, log, pidFile, pending,
                   tickBase, stop, summary, down>>

\* the EXIT trap is over: the sampler is gone
Terminate ==
    /\ pc = "exitDone" /\ pending = {}
    /\ pc' = "exited"
    /\ UNCHANGED <<env, elapsed, ticks, jpsOutput, row, rec, log, pidFile, pending,
                   tickBase, stop, cl, summary, down>>

\* a TERM or INT from outside, as the first stop signal
ExternalSignal ==
    /\ pc # "exited" /\ ~stop.seen
    /\ \E sig \in {"TERM", "INT"} : Deliver(sig)
    /\ UNCHANGED <<env, pc, elapsed, ticks, jpsOutput, row, rec, log, pidFile,
                   tickBase, cl, summary, down>>

-----------------------------------------------------------------------------
(* The rendering pass: run of cleanup.ts *)

\* the cleanup action is started
ExtStart ==
    /\ cl["ext"].pc = "idle"
    /\ cl' = [cl EXCEPT !["ext"].pc = "kill"]
    /\ UNCHANGED <<env, pc, elapsed, ticks, jpsOutput, row, rec, log, pidFile, pending,
                   tickBase, stop, summary, down>>

\* lines 220-226: process.kill(pid) sends SIGTERM; a missing pid file or a dead
\* process is caught and logged
Kill(c) ==
    /\ cl[c].pc = "kill"
    /\ IF pidFile /\ pc # "exited" THEN Deliver("TERM") ELSE UNCHANGED <<pending, stop>>
    /\ cl' = [cl EXCEPT ![c].pc = "parse"]
    /\ UNCHANGED <<env, pc, elapsed, ticks, jpsOutput, row, rec, log, pidFile,
                   tickBase, summary, down>>

\* line 230 when the log does not exist: readFileSync throws, lines 292-294
RenderFails(c) ==
    /\ cl[c].pc = "parse"
    /\ log = <<>>
    /\ cl' = [cl EXCEPT ![c].pc = "failed"]
    /\ UNCHANGED <<env, pc, elapsed, ticks, jpsOutput, row, rec, log, pidFile, pending,
                   tickBase, stop, summary, down>>

\* lines 230-237: parse the log, generate both charts
Render(c) ==
    /\ cl[c].pc = "parse"
    /\ log # <<>>
    /\ \E lines \in VisibleLogs :
          \E parsed \in {parseLogFile(lines)} :
              cl' = [cl EXCEPT ![c] =
                      [pc         |-> "upload",
                       processes  |-> parsed.processes,
                       timestamps |-> parsed.timestamps,
                       chart      |-> generateMermaidChart(parsed.processes, parsed.timestamps),
                       svg        |-> generateSvg(parsed.processes, parsed.timestamps)]]
    /\ UNCHANGED <<env, pc, elapsed, ticks, jpsOutput, row, rec, log, pidFile, pending,
                   tickBase, stop, summary, down>>

\* line 246 throws: lines 292-294, and the process is gone
UploadFails(c) ==
    /\ cl[c].pc = "upload"
    /\ cl' = [cl EXCEPT ![c] = [Idle EXCEPT !.pc = "failed"]]
    /\ UNCHANGED <<env, pc, elapsed, ticks, jpsOutput, row, rec, log, pidFile, pending,
                   tickBase, stop, summary, down>>

\* lines 246-291: the upload succeeds; with GITHUB_STEP_SUMMARY set the analysis
\* section is appended to the summary; the process is gone
Finish(c) ==
    /\ cl[c].pc = "upload"
    /\ cl' = [cl EXCEPT ![c] = [Idle EXCEPT !.pc = "ok"]]
    /\ \E hasSummary \in BOOLEAN :
          summary' = IF hasSummary
                     THEN [count |-> [summary.count EXCEPT ![c] = Min(@ + 1, MaxRuns)],
                           last  |-> SummarySection(cl[c].processes, cl[c].timestamps)]
                     ELSE summary
    /\ UNCHANGED <<env, pc, elapsed, ticks, jpsOutput, row, rec, log, pidFile, pending,
                   tickBase, stop, down>>

-----------------------------------------------------------------------------
(* The sampler with the cleanup action *)

\* three processes, the second one not watched; the reads of the first one vary
SpecRows ==
    {<<JpsRow(101, GradleDaemon, a), JpsRow(202, Jps, [gc |-> GcOk, rss |-> RssOk(1024)]),
       JpsRow(303, KotlinCompileDaemon, [gc |-> GcOk, rss |-> RssOk(51200)])>> :
        a \in ReadOutcomes({102400})}

SpecEnv == [instants |-> {0, 359999, 360000}, jps |-> SpecRows]

Init == InitSampler /\ env = SpecEnv /\ log = <<>> /\ down = NoDown

SamplerNext ==
    \/ WritePid \/ StartLog \/ WriteHeader \/ TickStart
    \/ SkipRow \/ ReadEmpty \/ ReadAborts \/ ReadOk \/ EchoBegin \/ EchoEnd
    \/ RowsDone \/ Sleep
    \/ Trap \/ Reap \/ ExitCommand \/ Terminate

PassNext(c) == Kill(c) \/ RenderFails(c) \/ Render(c) \/ UploadFails(c) \/ Finish(c)

CleanupNext == ExtStart \/ \E c \in Passes : PassNext(c)

Next == SamplerNext \/ CleanupNext \/ ExternalSignal

Spec == Init /\ [][Next]_vars

\* two processes, the second one not watched, at one instant of the clock
FairRows ==
    {<<JpsRow(101, GradleDaemon, a), JpsRow(202, Jps, [gc |-> GcOk, rss |-> RssOk(1024)])>> :
        a \in ReadOutcomes({102400})}

FairInit ==
    InitSampler /\ env = [instants |-> {0}, jps |-> FairRows] /\ log = <<>> /\ down = NoDown

\* bash goes on executing the script, and the child of a trap runs to its end
FairSpec ==
    FairInit /\ [][Next]_vars /\ WF_vars(SamplerNext) /\ WF_vars(PassNext("trap"))

-----------------------------------------------------------------------------
(* The rendering pass on its own, on a log text of any shape *)

\* well-formed records of two processes at 00:00:00, 00:00:05 and 00:00:10
SampleRecord(e, pid, name, rssKB) == RecordLine(TimestampOf(e), pid, name, 15360, 61440, rssKB)

\* a record whose last field and delimiter are missing: five fields
FiveFields == TimestampOf(5) \o FieldSep \o Digits(101) \o FieldSep \o GradleDaemon
                  \o FieldSep \o Fmt1(15360) \o UnitMB \o FieldSep \o Fmt1(61440) \o UnitMB

\* six fields, the last one not a number
NoNumber == FiveFields \o FieldSep \o <<"x">>

CandidateLines ==
    {SampleRecord(0, 101, GradleDaemon, 102400),
     SampleRecord(5, 101, GradleDaemon, 153600),
     SampleRecord(0, 202, KotlinCompileDaemon, 51200),
     SampleRecord(5, 202, KotlinCompileDaemon, 51200),
     SampleRecord(5, 101, GradleDaemon, 204800),
     FiveFields, NoNumber, <<>>}

RECURSIVE TextsOf(_)
TextsOf(n) ==
    IF n = 0 THEN {<<>>}
    ELSE LET shorter == TextsOf(n - 1)
         IN  shorter \cup {Append(t, l) : t \in {u \in shorter : Len(u) = n - 1}, l \in CandidateLines}

Headers == <<HeaderText \o DateText, ColumnHeader>>

\* the example of the specification: 101-DaemonA = [100,150,200], 202-DaemonB = [50,50]
ExampleText ==
    Headers \o <<SampleRecord(0, 101, GradleDaemon, 102400),
                 SampleRecord(0, 202, KotlinCompileDaemon, 51200),
                 SampleRecord(5, 101, GradleDaemon, 153600),
                 SampleRecord(5, 202, KotlinCompileDaemon, 51200),
                 SampleRecord(10, 101, GradleDaemon, 204800), <<>>>>

\* a run long enough for the diagram to be downsampled: the first process is
\* sampled on every tick, the second one on the ticks 1, 3, 5, 6, 7, 8 and 11
LongLen == 30

LongText ==
    Headers
      \o Concat([i \in 1..LongLen |->
            <<SampleRecord(5 * (i - 1), 101, GradleDaemon, 102400 + 1024 * i)>>
              \o (IF i \in {1, 3, 5, 6, 7, 8, 11}
                  THEN <<SampleRecord(5 * (i - 1), 202, KotlinCompileDaemon, 51200)>>
                  ELSE <<>>)])
      \o <<<<>>>>

\* the file is absent, holds less than the header, or the header and some lines,
\* with or without a final newline
ParseTexts ==
    {<<>>, <<<<>>>>, <<HeaderText \o DateText, <<>>>>, ExampleText, LongText}
        \cup {Headers \o t \o <<<<>>>> : t \in TextsOf(MaxLines)}
        \cup {Headers \o t : t \in TextsOf(MaxLines) \ {<<>>}}

\* the sampler is gone; the cleanup action runs on what it finds
InitParse ==
    /\ env = SpecEnv
    /\ pc = "exited"
    /\ elapsed = 0
    /\ ticks = 0
    /\ jpsOutput = <<>>
    /\ row = 1
    /\ rec = <<>>
    /\ pidFile = TRUE
    /\ pending = {}
    /\ tickBase = 0
    /\ stop = NoStop
    /\ cl = [c \in Passes |-> Idle]
    /\ summary = NoSummary
    /\ down = NoDown
    /\ log \in ParseTexts

NextParse == ExtStart \/ PassNext("ext")

SpecParse == InitParse /\ [][NextParse]_vars

-----------------------------------------------------------------------------
(* The downsampler on its own *)

\* line 49 for a timeline of down.n timestamps
Downsample ==
    /\ ~down.done
    /\ down' = [n |-> down.n, indices |-> SampledIndices(down.n), done |-> TRUE]
    /\ UNCHANGED <<env, pc, elapsed, ticks, jpsOutput, row, rec, log, pidFile, pending,
                   tickBase, stop, cl, summary>>

InitDown ==
    /\ InitSampler /\ env = SpecEnv /\ log = <<>>
    /\ \E n \in 1..MaxTimeline : down = [n |-> n, indices |-> <<>>, done |-> FALSE]

SpecDown == InitDown /\ [][Downsample]_vars

-----------------------------------------------------------------------------
(* What the claims are stated with *)

Range(f) == {f[i] : i \in DOMAIN f}

\* a pass holds the result of parseLogFile and both charts
Rendered(c) == cl[c].pc = "upload"

\* the lines of a file after its first two
DataLines(file) == [i \in 1..(Len(file) - 2) |-> file[i + 2]]

PipeCount(line) == Cardinality({i \in 1..Len(line) : line[i] = "|"})

\* the text between the (i-1)-th and the i-th delimiter of a line, without blanks
FieldOf(line, i) == Trim(Split(line, "|")[i])

\* the sample a line with five delimiters stands for
EntryOf(line) ==
    [key |-> FieldOf(line, 2) \o <<"-">> \o FieldOf(line, 3),
     ts  |-> FieldOf(line, 1),
     rss |-> ParseFloat(ReplaceMB(FieldOf(line, 6)))]

\* the samples of the lines with exactly five delimiters, in file order
RECURSIVE EntriesOf(_)
EntriesOf(lines) ==
    IF lines = <<>> THEN <<>>
    ELSE IF PipeCount(lines[1]) = 5
         THEN <<EntryOf(lines[1])>> \o EntriesOf(Tail(lines))
         ELSE EntriesOf(Tail(lines))

RECURSIVE WithKey(_, _)
WithKey(entries, key) ==
    IF entries = <<>> THEN <<>>
    ELSE IF entries[1].key = key
         THEN <<<<entries[1].ts, entries[1].rss>>>> \o WithKey(Tail(entries), key)
         ELSE WithKey(Tail(entries), key)

\* the value a series has at a timestamp: that of its first sample there, or 0
ValueAt(entries, key, t) ==
    IF \E i \in 1..Len(entries) : entries[i].key = key /\ entries[i].ts = t
    THEN entries[CHOOSE i \in 1..Len(entries) :
                    /\ entries[i].key = key /\ entries[i].ts = t
                    /\ \A j \in 1..(i - 1) : ~(entries[j].key = key /\ entries[j].ts = t)].rss
    ELSE Int2Num(0)

RECURSIVE SumOver(_, _, _)
SumOver(keys, entries, t) ==
    IF keys = {} THEN Int2Num(0)
    ELSE LET key == CHOOSE x \in keys : TRUE
         IN  NAdd(ValueAt(entries, key, t), SumOver(keys \ {key}, entries, t))

ExpectedSum(entries, t) == SumOver({entries[i].key : i \in 1..Len(entries)}, entries, t)

\* elapsed seconds of a timestamp HH:MM:SS
SecondsOf(ts) ==
    LET f == Split(ts, ":")
    IN  DigitsValue(f[1]) * 3600 + DigitsValue(f[2]) * 60 + DigitsValue(f[3])

-----------------------------------------------------------------------------
(* C2 *)

\* C2: parseLogFile skips exactly the first two lines; of the others, each line
\* with six fields (five delimiters) adds one (timestamp, rss) entry to the
\* series of its pid-name key and any other line adds nothing and disturbs no
\* other line, so that every series has as many timestamps as rss values.
C2_ParseKeepsSixFieldLines ==
    Rendered("ext") =>
        LET entries == EntriesOf(DataLines(log))
            procs   == cl["ext"].processes
        IN  /\ \A p \in 1..Len(procs) : Len(procs[p].timestamps) = Len(procs[p].rss)
            /\ {procs[p].key : p \in 1..Len(procs)} = {entries[i].key : i \in 1..Len(entries)}
            /\ \A p, q \in 1..Len(procs) : procs[p].key = procs[q].key => p = q
            /\ \A p \in 1..Len(procs) :
                  [i \in 1..Len(procs[p].timestamps) |-> <<procs[p].timestamps[i], procs[p].rss[i]>>]
                      = WithKey(entries, procs[p].key)

\* a five-field line between two well-formed lines, both captured
C2_Witness ==
    /\ Rendered("ext")
    /\ Len(log) = 6
    /\ log[4] = FiveFields
    /\ PipeCount(log[3]) = 5 /\ PipeCount(log[5]) = 5
    /\ log[3] # log[5]
    /\ Len(AllRss(cl["ext"].processes)) = 2

-----------------------------------------------------------------------------
(* C3 *)

\* C3: for every timestamp t of the timeline (and of the downsampled timeline of
\* the diagram) the aggregate equals the sum over all series of the series's
\* value at t, a series without an entry at t contributing 0.
C3_AggregateIsSumOfSeries ==
    Rendered("ext") =>
        LET entries == EntriesOf(DataLines(log))
            ts      == cl["ext"].timestamps
            svg     == cl["ext"].svg
            chart   == cl["ext"].chart
        IN  /\ Len(svg.aggregatedRss) = Len(ts)
            /\ \A i \in 1..Len(ts) : svg.aggregatedRss[i] = ExpectedSum(entries, ts[i])
            /\ Len(chart.agg) = Len(chart.sampled)
            /\ \A j \in 1..Len(chart.sampled) :
                  chart.agg[j] = ExpectedSum(entries, chart.sampled[j])

\* the example: [100,150,200] and [50,50] give [150,200,200] over three timestamps
C3_Witness ==
    /\ Rendered("ext")
    /\ log = ExampleText
    /\ cl["ext"].timestamps = <<TimestampOf(0), TimestampOf(5), TimestampOf(10)>>
    /\ cl["ext"].svg.aggregatedRss = <<Int2Num(150), Int2Num(200), Int2Num(200)>>
    /\ cl["ext"].chart.agg = <<Int2Num(150), Int2Num(200), Int2Num(200)>>

-----------------------------------------------------------------------------
(* C4 *)

-----------------------------------------------------------------------------
(* C10 *)

\* the series has an entry at this timestamp
HasEntry(data, t) == t \in Range(data.timestamps)

\* a node with this identifier is declared in the subgraph of sampled index i
Declared(chart, ck, i) ==
    /\ i + 1 \in 1..Len(chart.subgraphs)
    /\ \E k \in 1..Len(chart.subgraphs[i + 1]) :
          chart.subgraphs[i + 1][k][1] = ck /\ chart.subgraphs[i + 1][k][2] = i

\* C10: in the diagram a series has the edge from its node at sampled index i-1
\* to its node at i exactly when it has an entry at both sampled timestamps, so
\* every end of a series edge is a declared node; the aggregate node of i-1 is
\* linked to that of i for every i >= 1.
C10_EdgesOnlyBetweenEntries ==
    Rendered("ext") =>
        LET chart == cl["ext"].chart
            procs == cl["ext"].processes
            m     == Len(chart.sampled)
        IN  /\ Len(chart.edges) = Len(procs)
            /\ \A p \in 1..Len(procs) :
                  LET ck == CleanKey(procs[p].key)
                  IN  /\ \A i \in 1..(m - 1) :
                            (<<ck, i - 1, ck, i>> \in Range(chart.edges[p]))
                                <=> (HasEntry(procs[p], chart.sampled[i])
                                       /\ HasEntry(procs[p], chart.sampled[i + 1]))
                      /\ \A e \in Range(chart.edges[p]) :
                            /\ e[1] = ck /\ e[3] = ck /\ e[4] = e[2] + 1
                            /\ Declared(chart, e[1], e[2])
                            /\ Declared(chart, e[3], e[4])
            /\ chart.aggEdges = [i \in 1..(m - 1) |-> <<i - 1, i>>]

\* a downsampled diagram in which a series has edges, and a gap without one
\* while the aggregate is linked across it
C10_Witness ==
    /\ Rendered("ext")
    /\ log = LongText
    /\ Len(cl["ext"].chart.sampled) = 15
    /\ \E p \in 1..Len(cl["ext"].processes) :
          LET d == cl["ext"].processes[p]
              ck == CleanKey(d.key)
              chart == cl["ext"].chart
          IN  /\ HasEntry(d, chart.sampled[4]) /\ ~HasEntry(d, chart.sampled[5])
              /\ HasEntry(d, chart.sampled[6])
              /\ <<ck, 2, ck, 3>> \in Range(chart.edges[p])
              /\ <<ck, 3, ck, 4>> \notin Range(chart.edges[p])
              /\ <<ck, 4, ck, 5>> \notin Range(chart.edges[p])
              /\ <<3, 4>> \in Range(chart.aggEdges)

-----------------------------------------------------------------------------
(* C1 *)

\* the records the current tick has appended for the process of a jps row
TickRecords(r) ==
    {i \in (tickBase + 0)..(Len(log) - 1) :
        /\ i >= 1
        /\ PipeCount(log[i]) = 5
        /\ FieldOf(log[i], 2) = Digits(r.pid)
        /\ FieldOf(log[i], 3) = r.name}

\* the tick has gone through its rows, or the script has left the loop in it,
\* and no stop signal has arrived
TickOver == ticks > 0 /\ ~stop.seen /\ pc \in {"sleep", "exitTrap"}

\* C1: when a tick is over, every process of the jps listing whose name is a
\* watched name and whose two reads succeeded has exactly one record of this
\* tick in the log, and every other process (not watched, or with a failed read)
\* has none.
C1_OneRecordPerReadableProcess ==
    TickOver =>
        \A k \in 1..Len(jpsOutput) :
            Cardinality(TickRecords(jpsOutput[k]))
                = IF Watched(jpsOutput[k].name) /\ ReadsSucceed(jpsOutput[k]) THEN 1 ELSE 0

-----------------------------------------------------------------------------
(* C5 *)

\* every line the sampler has appended after the header is a six-field record
CompleteRecords ==
    \A i \in 3..(Len(log) - 1) : PipeCount(log[i]) = 5 /\ Len(Split(log[i], "|")) = 6

\* C5: once a stop signal (TERM or INT) has reached the sampler, the sampler
\* eventually terminates, having started no tick after the signal and appended
\* at most the record that was in flight, and its log holds complete records only.
C5_StopSignalTerminates ==
    stop.seen ~> (/\ pc = "exited"
                  /\ ticks = stop.ticks
                  /\ Len(log) <= stop.lines + 1
                  /\ CompleteRecords)

-----------------------------------------------------------------------------
(* C6 *)

\* the log holds the two header lines and nothing else
HeaderOnly == log = Headers \o <<<<>>>>

\* C6: on a log of the two header lines the rendering pass yields no series and
\* an empty timeline, and the section it appends to the summary reports no
\* process, the duration N/A and a maximum that is a finite number, not the
\* maximum of an empty set.
C6_HeaderOnlyReportsNoData ==
    /\ (HeaderOnly /\ Rendered("ext")) =>
           cl["ext"].processes = <<>> /\ cl["ext"].timestamps = <<>>
    /\ (HeaderOnly /\ summary.count["ext"] > 0) =>
           /\ summary.last.processCount = 0
           /\ summary.last.duration = <<"N/A">>
           /\ IsFinite(summary.last.maxRss)

-----------------------------------------------------------------------------
(* C7 *)

\* the x coordinates the chart emits: series points, aggregate points, labels
XCoordinates(svg) ==
    UNION {{svg.series[p][i][1] : i \in 1..Len(svg.series[p])} : p \in 1..Len(svg.series)}
        \cup {svg.aggregatedPoints[i][1] : i \in 1..Len(svg.aggregatedPoints)}
        \cup Range(svg.labels)

\* C7: with exactly one timestamp the horizontal spacing is the plot width
\* divided by 1, and every x coordinate of the chart is a finite number.
C7_SingleTimestampFiniteX ==
    (Rendered("ext") /\ Len(cl["ext"].timestamps) = 1) =>
        /\ cl["ext"].svg.xScale = Int2Num(width - marginLeft - marginRight)
        /\ \A x \in XCoordinates(cl["ext"].svg) : IsFinite(x)

-----------------------------------------------------------------------------
(* C8 *)

\* the samples of the complete records the sampler has written or is writing
CompleteEntries ==
    Range(EntriesOf(DataLines(IF pc = "writing" THEN AppendLine(log, rec) ELSE log)))

\* the samples a pass holds
PassEntries(c) ==
    UNION {{[key |-> cl[c].processes[p].key,
             ts  |-> cl[c].processes[p].timestamps[i],
             rss |-> cl[c].processes[p].rss[i]] : i \in 1..Len(cl[c].processes[p].rss)}
           : p \in 1..Len(cl[c].processes)}

\* C8: a pass that reads the log while the sampler is writing a record holds
\* only samples of complete records: the part of the record it has seen
\* contributes no entry and no value of its own to a series or to the timeline.
C8_PartialLineDropped ==
    \A c \in Passes :
        Rendered(c) =>
            /\ PassEntries(c) \subseteq CompleteEntries
            /\ Range(cl[c].timestamps) \subseteq {e.ts : e \in CompleteEntries}

-----------------------------------------------------------------------------
(* C9 *)

\* C9: the timeline of a pass holds each timestamp once, and going through it
\* in its order is going forward in elapsed time, whatever the elapsed time.
C9_TimelineChronological ==
    \A c \in Passes :
        Rendered(c) =>
            \A i, j \in 1..Len(cl[c].timestamps) :
                i < j => SecondsOf(cl[c].timestamps[i]) < SecondsOf(cl[c].timestamps[j])

-----------------------------------------------------------------------------
(* C11 *)

\* C11: once a stop signal has reached the sampler, the rendering passes the
\* sampler itself launches while it shuts down append the analysis section to
\* the summary at most once.
C11_ShutdownAppendsOnce == stop.seen => summary.count["trap"] <= 1

====
